---- MODULE Spec2Model ----
(***************************************************************************)
(* Model of models/cyclegan.py: the layer constructors and the forward     *)
(* passes (call) of Downsample, Upsample, ResNetBlock, Discriminator and   *)
(* ResNetGenerator.  A tensor is modelled by its shape (batch, height,     *)
(* width, channels); a layer object by the attributes its constructor      *)
(* sets; a forward pass by the sequence of sublayers it applies and the    *)
(* shapes they produce.                                                    *)
(***************************************************************************)
EXTENDS Integers, Sequences, FiniteSets, TLC

\* ------------------------------------------------------------------ bounds
MaxBatch == 2
MaxFilters == 2
MaxChannels == 2
MaxQuarter == 3
MaxSize == 4
MaxDim == 4

\* --------------------------------------------------------------- constants
INPUT_SHAPE == <<256, 256, 3>>

\* Python's None.
None == "<None>"

\* Python truthiness of an argument that is None or a string.
Truthy(v) == v \notin {None, ""}

\* str.lower() on the strings the model draws.
Lower(s) ==
    CASE s = "BatchNorm" -> "batchnorm"
      [] s = "InstanceNorm" -> "instancenorm"
      [] s = "ReLU" -> "relu"
      [] s = "LRelu" -> "lrelu"
      [] s = "Tanh" -> "tanh"
      [] OTHER -> s

Exceptions == {"ValueError", "NameError", "InvalidArgumentError"}

\* ----------------------------------------------------------------- tensors
Tensor(b, h, w, c) == [err |-> "none", b |-> b, h |-> h, w |-> w, c |-> c]

Raise(e) == [err |-> e, b |-> 0, h |-> 0, w |-> 0, c |-> 0]

NoTensor == Raise("unset")

Max(a, b) == IF a >= b THEN a ELSE b

\* Output length of a convolution along one spatial axis: 'same' keeps the
\* length, 'valid' loses size - 1, then the stride divides rounding up.
ConvOutputLength(len, size, padding, strides) ==
    LET l == IF padding = "same" THEN len ELSE len - size + 1
    IN  (l + strides - 1) \div strides

\* Output length of a transposed convolution along one spatial axis.
DeconvOutputLength(len, size, padding, strides) ==
    IF padding = "same" THEN len * strides
    ELSE len * strides + Max(size - strides, 0)

\* Conv2D(filters, size, strides, padding): a non-positive output dimension
\* is rejected by the framework.
Conv2DCall(conv, t) ==
    IF t.err # "none" THEN t
    ELSE LET oh == ConvOutputLength(t.h, conv.size, conv.padding, conv.strides)
             ow == ConvOutputLength(t.w, conv.size, conv.padding, conv.strides)
         IN  IF oh <= 0 \/ ow <= 0 THEN Raise("InvalidArgumentError")
             ELSE Tensor(t.b, oh, ow, conv.filters)

Conv2DTransposeCall(conv, t) ==
    IF t.err # "none" THEN t
    ELSE Tensor(t.b,
                DeconvOutputLength(t.h, conv.size, conv.padding, conv.strides),
                DeconvOutputLength(t.w, conv.size, conv.padding, conv.strides),
                conv.filters)

\* tf.pad(x, [[0,0],[pad,pad],[pad,pad],[0,0]], "REFLECT"): the padding must
\* be smaller than the padded dimension.
ReflectPad(t, pad) ==
    IF t.err # "none" THEN t
    ELSE IF pad > t.h - 1 \/ pad > t.w - 1 THEN Raise("InvalidArgumentError")
    ELSE Tensor(t.b, t.h + 2 * pad, t.w + 2 * pad, t.c)

\* ZeroPadding2D() with its default padding of one pixel per side.
ZeroPadding2DCall(t) ==
    IF t.err # "none" THEN t ELSE Tensor(t.b, t.h + 2, t.w + 2, t.c)

\* InstanceNormalization.call: scale * normalized + offset, shape kept.
InstanceNormalizationCall(t) == t

\* Normalization layers, activations and dropout keep the shape.
ElementwiseCall(t) == t

BroadcastDim(a, b) ==
    IF a = b THEN a ELSE IF a = 1 THEN b ELSE IF b = 1 THEN a ELSE -1

\* x + inputs with the framework's broadcasting rule.
Add(s, t) ==
    IF s.err # "none" THEN s
    ELSE IF t.err # "none" THEN t
    ELSE LET b == BroadcastDim(s.b, t.b)
             h == BroadcastDim(s.h, t.h)
             w == BroadcastDim(s.w, t.w)
             c == BroadcastDim(s.c, t.c)
         IN  IF -1 \in {b, h, w, c} THEN Raise("InvalidArgumentError")
             ELSE Tensor(b, h, w, c)

\* ------------------------------------------------------------ layer lookup
get_norm_layer(norm_type) ==
    IF Lower(norm_type) = "batchnorm" THEN "BatchNormalization"
    ELSE IF Lower(norm_type) = "instancenorm" THEN "InstanceNormalization"
    ELSE "ValueError"

\* The else branch formats the undefined name norm_type: a NameError.
get_activation(activation) ==
    IF Lower(activation) = "relu" THEN "ReLU"
    ELSE IF Lower(activation) = "lrelu" THEN "LeakyReLU(0.2)"
    ELSE IF Lower(activation) = "tanh" THEN "tanh"
    ELSE "NameError"

Conv(filters, size, strides, padding, use_bias, activation) ==
    [filters |-> filters, size |-> size, strides |-> strides,
     padding |-> padding, use_bias |-> use_bias, activation |-> activation]

\* -------------------------------------------------------------- Downsample
DownsampleInit(filters, size, strides, padding, norm_type, activation, name) ==
    LET norm_layer == IF Truthy(norm_type) THEN get_norm_layer(norm_type)
                      ELSE "unset"
        use_bias == ~Truthy(norm_type)
        act == get_activation(activation)
    IN  [cls |-> "Downsample", name |-> name,
         raised |-> IF norm_layer \in Exceptions THEN norm_layer
                    ELSE IF act \in Exceptions THEN act ELSE "none",
         norm_type |-> norm_type, norm_layer |-> norm_layer,
         conv |-> Conv(filters, size, strides, padding, use_bias, "linear"),
         apply_dropout |-> FALSE, dropout |-> "unset",
         activation |-> act]

DownsampleCall(self, inputs) ==
    LET x1 == Conv2DCall(self.conv, inputs)
        x2 == IF Truthy(self.norm_type) THEN ElementwiseCall(x1) ELSE x1
        x3 == ElementwiseCall(x2)
    IN  [x |-> x3,
         ops |-> IF x1.err # "none" THEN <<"Conv2D">>
                 ELSE <<"Conv2D">>
                      \o (IF Truthy(self.norm_type) THEN <<self.norm_layer>>
                          ELSE <<>>)
                      \o <<self.activation>>]

\* ---------------------------------------------------------------- Upsample
UpsampleInit(filters, size, strides, padding, norm_type, apply_dropout, activation, name) ==
    LET norm_layer == IF Truthy(norm_type) THEN get_norm_layer(norm_type)
                      ELSE "unset"
        use_bias == ~Truthy(norm_type)
        act == get_activation(activation)
    IN  [cls |-> "Upsample", name |-> name,
         raised |-> IF norm_layer \in Exceptions THEN norm_layer
                    ELSE IF act \in Exceptions THEN act ELSE "none",
         norm_type |-> norm_type, norm_layer |-> norm_layer,
         conv |-> Conv(filters, size, strides, padding, use_bias, "linear"),
         apply_dropout |-> apply_dropout,
         dropout |-> IF apply_dropout THEN "Dropout(0.5)" ELSE "unset",
         activation |-> act]

\* Mutant: the dropout is applied after the activation.
UpsampleCall_DropoutLast(self, inputs) ==
    LET x1 == Conv2DTransposeCall(self.conv, inputs)
        x2 == IF Truthy(self.norm_type) THEN ElementwiseCall(x1) ELSE x1
        x3 == ElementwiseCall(x2)
        x4 == IF self.apply_dropout THEN ElementwiseCall(x3) ELSE x3
    IN  [x |-> x4,
         ops |-> <<"Conv2DTranspose">>
                 \o (IF Truthy(self.norm_type) THEN <<self.norm_layer>>
                     ELSE <<>>)
                 \o <<self.activation>>
                 \o (IF self.apply_dropout THEN <<self.dropout>> ELSE <<>>)]

UpsampleCall(self, inputs) ==
    LET x1 == Conv2DTransposeCall(self.conv, inputs)
        x2 == IF Truthy(self.norm_type) THEN ElementwiseCall(x1) ELSE x1
        x3 == IF self.apply_dropout THEN ElementwiseCall(x2) ELSE x2
        x4 == ElementwiseCall(x3)
    IN  [x |-> x4,
         ops |-> <<"Conv2DTranspose">>
                 \o (IF Truthy(self.norm_type) THEN <<self.norm_layer>>
                     ELSE <<>>)
                 \o (IF self.apply_dropout THEN <<self.dropout>> ELSE <<>>)
                 \o <<self.activation>>]

\* ------------------------------------------------------------- ResNetBlock
ResNetBlockInit(filters, size, strides, padding) ==
    [cls |-> "ResNetBlock", raised |-> "none", size |-> size,
     conv2d_1 |-> Conv(filters, size, strides, padding, FALSE, "linear"),
     conv2d_2 |-> Conv(filters, size, strides, padding, FALSE, "linear")]

\* Mutant: pad = int(self.size - 1 / 2), the division binding first.
ResNetBlockPad_Precedence(self) == self.size - 1

\* pad = int((self.size - 1) / 2), for size >= 1.
ResNetBlockPad(self) == (self.size - 1) \div 2

\* The tensor the second InstanceNormalization produces.
ResNetBlockBody(self, inputs) ==
    LET pad == ResNetBlockPad(self)
        x1 == ReflectPad(inputs, pad)
        x2 == Conv2DCall(self.conv2d_1, x1)
        x3 == InstanceNormalizationCall(x2)
        x4 == ElementwiseCall(x3)
        x5 == ReflectPad(x4, pad)
        x6 == Conv2DCall(self.conv2d_2, x5)
    IN  InstanceNormalizationCall(x6)

ResNetBlockCall(self, inputs) ==
    LET body == ResNetBlockBody(self, inputs)
    IN  [x |-> Add(body, inputs), body |-> body]

\* Keyword defaults of the constructors.
DownsampleDefaults == [strides |-> 1, padding |-> "same", norm_type |-> "batchnorm", activation |-> "lrelu"]

UpsampleDefaults == [norm_type |-> "batchnorm", apply_dropout |-> FALSE, activation |-> "relu"]

ResNetBlockDefaults == [size |-> 3, strides |-> 1, padding |-> "valid"]

DiscriminatorDefaults == [first_filters |-> 64, size |-> 4, norm_type |-> "instancenorm"]

\* The first exception a sequence of constructed sublayers raised, if any.
RECURSIVE FirstRaised(_)
FirstRaised(layers) ==
    IF layers = <<>> THEN "none"
    ELSE IF Head(layers).raised # "none" THEN Head(layers).raised
    ELSE FirstRaised(Tail(layers))

\* A keras Conv2D used directly as a stage: convolution, then its activation.
Conv2DLayerCall(conv, inputs) ==
    LET x1 == Conv2DCall(conv, inputs)
    IN  [x |-> x1,
         ops |-> IF x1.err # "none" \/ conv.activation = "linear" THEN <<"Conv2D">>
                 ELSE <<"Conv2D", conv.activation>>]

\* ----------------------------------------------------------- Discriminator
\* Mutant: downsample_4 strides like the three stages before it.
DiscriminatorInit_Stride2(first_filters, size, norm_type) ==
    LET d1 == DownsampleInit(first_filters, size, 2, "same", None, "lrelu", "downsample_1")
        d2 == DownsampleInit(first_filters * 2, size, 2, "same", norm_type, "lrelu", "downsample_2")
        d3 == DownsampleInit(first_filters * 4, size, 2, "same", norm_type, "lrelu", "downsample_3")
        d4 == DownsampleInit(first_filters * 8, size, 2, "valid", norm_type, "lrelu", "downsample_4")
    IN  [cls |-> "Discriminator", raised |-> FirstRaised(<<d1, d2, d3, d4>>),
         norm_type |-> norm_type,
         downsample_1 |-> d1, downsample_2 |-> d2, downsample_3 |-> d3,
         downsample_4 |-> d4,
         conv2d |-> Conv(1, size, 1, "valid", TRUE, "linear")]

\* Mutant: downsample_1 is normalized like the other stages.
DiscriminatorInit_NormFirst(first_filters, size, norm_type) ==
    LET d1 == DownsampleInit(first_filters, size, 2, "same", norm_type, "lrelu", "downsample_1")
        d2 == DownsampleInit(first_filters * 2, size, 2, "same", norm_type, "lrelu", "downsample_2")
        d3 == DownsampleInit(first_filters * 4, size, 2, "same", norm_type, "lrelu", "downsample_3")
        d4 == DownsampleInit(first_filters * 8, size, 1, "valid", norm_type, "lrelu", "downsample_4")
    IN  [cls |-> "Discriminator", raised |-> FirstRaised(<<d1, d2, d3, d4>>),
         norm_type |-> norm_type,
         downsample_1 |-> d1, downsample_2 |-> d2, downsample_3 |-> d3,
         downsample_4 |-> d4,
         conv2d |-> Conv(1, size, 1, "valid", TRUE, "linear")]

DiscriminatorInit(first_filters, size, norm_type) ==
    LET d1 == DownsampleInit(first_filters, size, 2, "same", None, "lrelu", "downsample_1")
        d2 == DownsampleInit(first_filters * 2, size, 2, "same", norm_type, "lrelu", "downsample_2")
        d3 == DownsampleInit(first_filters * 4, size, 2, "same", norm_type, "lrelu", "downsample_3")
        d4 == DownsampleInit(first_filters * 8, size, 1, "valid", norm_type, "lrelu", "downsample_4")
    IN  [cls |-> "Discriminator", raised |-> FirstRaised(<<d1, d2, d3, d4>>),
         norm_type |-> norm_type,
         downsample_1 |-> d1, downsample_2 |-> d2, downsample_3 |-> d3,
         downsample_4 |-> d4,
         conv2d |-> Conv(1, size, 1, "valid", TRUE, "linear")]

\* --------------------------------------------------------- ResNetGenerator
NumResNetBlocks == 9

\* Mutant: downsample_1 is built without padding="valid" and keeps the default.
ResNetGeneratorInit_SamePadding(first_filters, output_channels, norm_type) ==
    LET d1 == DownsampleInit(first_filters, 7, 1, DownsampleDefaults.padding, "instancenorm", DownsampleDefaults.activation, "downsample_1")
        d2 == DownsampleInit(first_filters * 2, 3, 2, DownsampleDefaults.padding, "instancenorm", DownsampleDefaults.activation, "downsample_2")
        d3 == DownsampleInit(first_filters * 4, 3, 2, DownsampleDefaults.padding, "instancenorm", DownsampleDefaults.activation, "downsample_3")
        rb == ResNetBlockInit(first_filters * 4, ResNetBlockDefaults.size, ResNetBlockDefaults.strides, ResNetBlockDefaults.padding)
        u1 == UpsampleInit(first_filters * 2, 3, 2, "same", "instancenorm", UpsampleDefaults.apply_dropout, UpsampleDefaults.activation, "upsample_1")
        u2 == UpsampleInit(first_filters, 3, 2, "same", "instancenorm", UpsampleDefaults.apply_dropout, UpsampleDefaults.activation, "upsample_2")
    IN  [cls |-> "ResNetGenerator", raised |-> FirstRaised(<<d1, d2, d3, u1, u2>>),
         downsample_1 |-> d1, downsample_2 |-> d2, downsample_3 |-> d3,
         resnetblocks |-> [i \in 1..NumResNetBlocks |-> rb],
         upsample_1 |-> u1, upsample_2 |-> u2,
         last_conv2d |-> Conv(output_channels, 7, 1, "valid", TRUE, "tanh")]

ResNetGeneratorInit(first_filters, output_channels, norm_type) ==
    LET d1 == DownsampleInit(first_filters, 7, 1, "valid", "instancenorm", DownsampleDefaults.activation, "downsample_1")
        d2 == DownsampleInit(first_filters * 2, 3, 2, DownsampleDefaults.padding, "instancenorm", DownsampleDefaults.activation, "downsample_2")
        d3 == DownsampleInit(first_filters * 4, 3, 2, DownsampleDefaults.padding, "instancenorm", DownsampleDefaults.activation, "downsample_3")
        rb == ResNetBlockInit(first_filters * 4, ResNetBlockDefaults.size, ResNetBlockDefaults.strides, ResNetBlockDefaults.padding)
        u1 == UpsampleInit(first_filters * 2, 3, 2, "same", "instancenorm", UpsampleDefaults.apply_dropout, UpsampleDefaults.activation, "upsample_1")
        u2 == UpsampleInit(first_filters, 3, 2, "same", "instancenorm", UpsampleDefaults.apply_dropout, UpsampleDefaults.activation, "upsample_2")
    IN  [cls |-> "ResNetGenerator", raised |-> FirstRaised(<<d1, d2, d3, u1, u2>>),
         downsample_1 |-> d1, downsample_2 |-> d2, downsample_3 |-> d3,
         resnetblocks |-> [i \in 1..NumResNetBlocks |-> rb],
         upsample_1 |-> u1, upsample_2 |-> u2,
         last_conv2d |-> Conv(output_channels, 7, 1, "valid", TRUE, "tanh")]

\* ------------------------------------------------------------ state machine
VARIABLES kind, args, inputs, obj, pc, x, trace, result, raised

vars == <<kind, args, inputs, obj, pc, x, trace, result, raised>>

\* Values of norm_type the docstrings name, and further strings a caller may pass.
NormDocumented == {"batchnorm", "instancenorm", None}

NormInputs == NormDocumented \cup {"", "BatchNorm", "layernorm"}

ActivationInputs == {"relu", "lrelu", "tanh", "ReLU", "sigmoid"}

Paddings == {"same", "valid"}

Strides == {1, 2}

\* Image sides fed to the two networks: small multiples of 4 and INPUT_SHAPE's.
ImageDims == {4 * k : k \in 1..MaxQuarter} \cup {INPUT_SHAPE[1]}

\* Channel counts of the images fed to the two networks.
ImageChannels == 1..MaxChannels \cup {INPUT_SHAPE[3]}

NoArgs == [first_filters |-> 0, output_channels |-> 0, norm_type |-> None, filters |-> 0, size |-> 0, strides |-> 0, padding |-> "", apply_dropout |-> FALSE, activation |-> ""]

NoObj == [cls |-> "unset", raised |-> "none"]

Start(k, a, t) ==
    /\ kind = k
    /\ args = a
    /\ inputs = t
    /\ obj = NoObj
    /\ pc = "new"
    /\ x = NoTensor
    /\ trace = <<>>
    /\ result = NoTensor
    /\ raised = "none"

InitResNetGenerator ==
    \E ff \in 1..MaxFilters, oc \in 1..MaxChannels, nt \in NormDocumented,
       b \in 1..MaxBatch, h \in ImageDims, w \in ImageDims, c \in ImageChannels :
        Start("ResNetGenerator",
              [NoArgs EXCEPT !.first_filters = ff, !.output_channels = oc, !.norm_type = nt],
              Tensor(b, h, w, c))

InitDiscriminator ==
    \E ff \in 1..MaxFilters, sz \in 1..MaxSize, nt \in NormDocumented,
       b \in 1..MaxBatch, h \in ImageDims, w \in ImageDims, c \in ImageChannels :
        Start("Discriminator",
              [NoArgs EXCEPT !.first_filters = ff, !.size = sz, !.norm_type = nt],
              Tensor(b, h, w, c))

InitDownsample ==
    \E f \in 1..MaxFilters, sz \in 1..MaxSize, st \in Strides, pd \in Paddings,
       nt \in NormInputs, act \in ActivationInputs, d \in 1..MaxDim :
        Start("Downsample",
              [NoArgs EXCEPT !.filters = f, !.size = sz, !.strides = st, !.padding = pd, !.norm_type = nt, !.activation = act],
              Tensor(1, d, d, 1))

InitUpsample ==
    \E f \in 1..MaxFilters, sz \in 1..MaxSize, st \in Strides, pd \in Paddings,
       nt \in NormInputs, dr \in BOOLEAN, act \in ActivationInputs, d \in 1..MaxDim :
        Start("Upsample",
              [NoArgs EXCEPT !.filters = f, !.size = sz, !.strides = st, !.padding = pd, !.norm_type = nt, !.apply_dropout = dr, !.activation = act],
              Tensor(1, d, d, 1))

InitResNetBlock ==
    \E f \in 1..MaxFilters, sz \in 1..MaxSize, st \in Strides, pd \in Paddings,
       b \in 1..MaxBatch, h \in 1..MaxDim, w \in 1..MaxDim, c \in 1..MaxChannels :
        Start("ResNetBlock",
              [NoArgs EXCEPT !.filters = f, !.size = sz, !.strides = st, !.padding = pd],
              Tensor(b, h, w, c))

Init ==
    \/ InitResNetGenerator
    \/ InitDiscriminator
    \/ InitDownsample
    \/ InitUpsample
    \/ InitResNetBlock

\* The constructor returned `o` or raised: a call may follow only on an object.
Constructed(o, first) ==
    /\ obj' = o
    /\ raised' = o.raised
    /\ pc' = IF o.raised = "none" THEN first ELSE "raised"
    /\ x' = IF o.raised = "none" THEN inputs ELSE x
    /\ UNCHANGED <<kind, args, inputs, trace, result>>

NewDownsample ==
    /\ kind = "Downsample" /\ pc = "new"
    /\ Constructed(DownsampleInit(args.filters, args.size, args.strides, args.padding, args.norm_type, args.activation, "downsample"), "call")

NewUpsample ==
    /\ kind = "Upsample" /\ pc = "new"
    /\ Constructed(UpsampleInit(args.filters, args.size, args.strides, args.padding, args.norm_type, args.apply_dropout, args.activation, "upsample"), "call")

NewResNetBlock ==
    /\ kind = "ResNetBlock" /\ pc = "new"
    /\ Constructed(ResNetBlockInit(args.filters, args.size, args.strides, args.padding), "call")

NewDiscriminator ==
    /\ kind = "Discriminator" /\ pc = "new"
    /\ Constructed(DiscriminatorInit(args.first_filters, args.size, args.norm_type), "downsample_1")

NewResNetGenerator ==
    /\ kind = "ResNetGenerator" /\ pc = "new"
    /\ Constructed(ResNetGeneratorInit(args.first_filters, args.output_channels, args.norm_type), "pad_inputs")

\* One statement `x = stage(x)` of a call: the stage's output replaces x, or
\* its exception leaves the call.
Assign(stage, r, body, next) ==
    /\ trace' = Append(trace, [stage |-> stage, ops |-> r.ops, body |-> body, out |-> r.x])
    /\ raised' = r.x.err
    /\ pc' = IF r.x.err = "none" THEN next ELSE "raised"
    /\ x' = IF r.x.err = "none" THEN r.x ELSE x
    /\ UNCHANGED <<kind, args, inputs, obj, result>>

\* `return x`.
Return ==
    /\ pc = "return"
    /\ result' = x
    /\ pc' = "done"
    /\ UNCHANGED <<kind, args, inputs, obj, x, trace, raised>>

CallDownsample ==
    /\ kind = "Downsample" /\ pc = "call"
    /\ Assign("call", DownsampleCall(obj, x), NoTensor, "return")

CallUpsample ==
    /\ kind = "Upsample" /\ pc = "call"
    /\ Assign("call", UpsampleCall(obj, x), NoTensor, "return")

CallResNetBlock ==
    /\ kind = "ResNetBlock" /\ pc = "call"
    /\ LET r == ResNetBlockCall(obj, x)
       IN  Assign("call", [x |-> r.x, ops |-> <<>>], r.body, "return")

\* A stage with no sublayers of its own (tf.pad, ZeroPadding2D).
Plain(t) == [x |-> t, ops |-> <<>>]

\* ------------------------------------------------------ Discriminator.call
DiscDownsample_1 ==
    /\ kind = "Discriminator" /\ pc = "downsample_1"
    /\ Assign("downsample_1", DownsampleCall(obj.downsample_1, x), NoTensor, "downsample_2")

DiscDownsample_2 ==
    /\ kind = "Discriminator" /\ pc = "downsample_2"
    /\ Assign("downsample_2", DownsampleCall(obj.downsample_2, x), NoTensor, "downsample_3")

DiscDownsample_3 ==
    /\ kind = "Discriminator" /\ pc = "downsample_3"
    /\ Assign("downsample_3", DownsampleCall(obj.downsample_3, x), NoTensor, "zeropadding2d_1")

DiscZeroPadding2D_1 ==
    /\ kind = "Discriminator" /\ pc = "zeropadding2d_1"
    /\ Assign("zeropadding2d_1", Plain(ZeroPadding2DCall(x)), NoTensor, "downsample_4")

DiscDownsample_4 ==
    /\ kind = "Discriminator" /\ pc = "downsample_4"
    /\ Assign("downsample_4", DownsampleCall(obj.downsample_4, x), NoTensor, "zeropadding2d_2")

DiscZeroPadding2D_2 ==
    /\ kind = "Discriminator" /\ pc = "zeropadding2d_2"
    /\ Assign("zeropadding2d_2", Plain(ZeroPadding2DCall(x)), NoTensor, "conv2d")

DiscConv2D ==
    /\ kind = "Discriminator" /\ pc = "conv2d"
    /\ Assign("conv2d", Conv2DLayerCall(obj.conv2d, x), NoTensor, "return")

\* ---------------------------------------------------- ResNetGenerator.call
BlockLabel == [i \in 1..NumResNetBlocks |-> <<"resnetblock_1", "resnetblock_2", "resnetblock_3", "resnetblock_4", "resnetblock_5", "resnetblock_6", "resnetblock_7", "resnetblock_8", "resnetblock_9">>[i]]

GenPadInputs ==
    /\ kind = "ResNetGenerator" /\ pc = "pad_inputs"
    /\ Assign("reflect_pad_3", Plain(ReflectPad(x, 3)), NoTensor, "downsample_1")

GenDownsample_1 ==
    /\ kind = "ResNetGenerator" /\ pc = "downsample_1"
    /\ Assign("downsample_1", DownsampleCall(obj.downsample_1, x), NoTensor, "downsample_2")

GenDownsample_2 ==
    /\ kind = "ResNetGenerator" /\ pc = "downsample_2"
    /\ Assign("downsample_2", DownsampleCall(obj.downsample_2, x), NoTensor, "downsample_3")

GenDownsample_3 ==
    /\ kind = "ResNetGenerator" /\ pc = "downsample_3"
    /\ Assign("downsample_3", DownsampleCall(obj.downsample_3, x), NoTensor, BlockLabel[1])

GenResNetBlock(i) ==
    /\ kind = "ResNetGenerator" /\ pc = BlockLabel[i]
    /\ LET r == ResNetBlockCall(obj.resnetblocks[i], x)
       IN  Assign(BlockLabel[i], [x |-> r.x, ops |-> <<>>], r.body,
                  IF i < NumResNetBlocks THEN BlockLabel[i + 1] ELSE "upsample_1")

GenResNetBlocks == \E i \in 1..NumResNetBlocks : GenResNetBlock(i)

GenUpsample_1 ==
    /\ kind = "ResNetGenerator" /\ pc = "upsample_1"
    /\ Assign("upsample_1", UpsampleCall(obj.upsample_1, x), NoTensor, "upsample_2")

GenUpsample_2 ==
    /\ kind = "ResNetGenerator" /\ pc = "upsample_2"
    /\ Assign("upsample_2", UpsampleCall(obj.upsample_2, x), NoTensor, "pad_x")

\* Mutant: the second reflection padding is left out.
GenPadX_Omitted ==
    /\ kind = "ResNetGenerator" /\ pc = "pad_x"
    /\ pc' = "last_conv2d"
    /\ UNCHANGED <<kind, args, inputs, obj, x, trace, result, raised>>

GenPadX ==
    /\ kind = "ResNetGenerator" /\ pc = "pad_x"
    /\ Assign("reflect_pad_3", Plain(ReflectPad(x, 3)), NoTensor, "last_conv2d")

GenLastConv2D ==
    /\ kind = "ResNetGenerator" /\ pc = "last_conv2d"
    /\ Assign("last_conv2d", Conv2DLayerCall(obj.last_conv2d, x), NoTensor, "return")

Next ==
    \/ NewDownsample
    \/ NewUpsample
    \/ NewResNetBlock
    \/ NewDiscriminator
    \/ NewResNetGenerator
    \/ CallDownsample
    \/ CallUpsample
    \/ CallResNetBlock
    \/ DiscDownsample_1
    \/ DiscDownsample_2
    \/ DiscDownsample_3
    \/ DiscZeroPadding2D_1
    \/ DiscDownsample_4
    \/ DiscZeroPadding2D_2
    \/ DiscConv2D
    \/ GenPadInputs
    \/ GenDownsample_1
    \/ GenDownsample_2
    \/ GenDownsample_3
    \/ GenResNetBlocks
    \/ GenUpsample_1
    \/ GenUpsample_2
    \/ GenPadX
    \/ GenLastConv2D
    \/ Return

Spec == Init /\ [][Next]_vars

\* ================================================================== claims
\* The call ran to its return statement.
Returned == pc \in {"return", "done"}

\* The normalization layer norm_type selects, per the docstrings.
SelectedNorm(norm_type) ==
    CASE norm_type = "batchnorm" -> "BatchNormalization"
      [] norm_type = "instancenorm" -> "InstanceNormalization"
      [] OTHER -> "unset"

GenStageOrder ==
    <<"reflect_pad_3", "downsample_1", "downsample_2", "downsample_3",
      "resnetblock_1", "resnetblock_2", "resnetblock_3", "resnetblock_4",
      "resnetblock_5", "resnetblock_6", "resnetblock_7", "resnetblock_8",
      "resnetblock_9", "upsample_1", "upsample_2", "reflect_pad_3",
      "last_conv2d">>

\* The tensor stage i of a call received: the input, or stage i-1's output.
StageInput(i) == IF i = 1 THEN inputs ELSE trace[i - 1].out

PaddedBy3(i) ==
    trace[i].out.err = "none" =>
        trace[i].out = Tensor(StageInput(i).b, StageInput(i).h + 6, StageInput(i).w + 6, StageInput(i).c)

GenExpectedShape(i) ==
    LET ff == args.first_filters
        b == inputs.b
        h == inputs.h
        w == inputs.w
    IN  CASE i = 1 -> Tensor(b, h + 6, w + 6, inputs.c)
          [] i = 2 -> Tensor(b, h, w, ff)
          [] i = 3 -> Tensor(b, h \div 2, w \div 2, ff * 2)
          [] i \in 4..13 -> Tensor(b, h \div 4, w \div 4, ff * 4)
          [] i = 14 -> Tensor(b, h \div 2, w \div 2, ff * 2)
          [] i = 15 -> Tensor(b, h, w, ff)
          [] i = 16 -> Tensor(b, h + 6, w + 6, ff)
          [] OTHER -> Tensor(b, h, w, args.output_channels)

GenShapesFrom(minSide) ==
    (/\ kind = "ResNetGenerator"
     /\ inputs.h % 4 = 0 /\ inputs.w % 4 = 0
     /\ inputs.h >= minSide /\ inputs.w >= minSide
     /\ args.first_filters >= 1 /\ args.output_channels >= 1) =>
        /\ raised = "none"
        /\ \A i \in 1..Len(trace) : trace[i].out = GenExpectedShape(i)
        /\ pc = "done" =>
              result = Tensor(inputs.b, inputs.h, inputs.w, args.output_channels)

\* C2 as stated: for H, W multiples of 4 and at least 4, ResNetGenerator.call
\* returns (B, H, W, output_channels) through H x W, H/2, H/4, H/2, H x W.
C2_Original == GenShapesFrom(4)

\* C2 amended: for H, W multiples of 4 and at least 8, ResNetGenerator.call
\* returns (B, H, W, output_channels), with H x W after downsample_1, H/4 x W/4
\* from downsample_3 through resnetblock_9 and H x W after upsample_2.
C2_ShapeFrom8 == GenShapesFrom(8)

C2_Witness ==
    /\ kind = "ResNetGenerator" /\ pc = "done"
    /\ inputs = Tensor(2, 256, 256, 3)
    /\ trace[13].out = Tensor(2, 64, 64, args.first_filters * 4)
    /\ result = Tensor(2, 256, 256, args.output_channels)

DiscExpectedShape(i) ==
    LET ff == args.first_filters
        b == inputs.b
    IN  CASE i = 1 -> Tensor(b, 128, 128, ff)
          [] i = 2 -> Tensor(b, 64, 64, ff * 2)
          [] i = 3 -> Tensor(b, 32, 32, ff * 4)
          [] i = 4 -> Tensor(b, 34, 34, ff * 4)
          [] i = 5 -> Tensor(b, 31, 31, ff * 8)
          [] i = 6 -> Tensor(b, 33, 33, ff * 8)
          [] OTHER -> Tensor(b, 30, 30, 1)

StageNormIs(layer, i, norm) ==
    /\ layer.norm_layer = norm
    /\ Truthy(layer.norm_type) <=> norm # "unset"
    /\ layer.conv.use_bias <=> norm = "unset"
    /\ (Len(trace) >= i /\ trace[i].out.err = "none") =>
          trace[i].ops = <<"Conv2D">> \o (IF norm = "unset" THEN <<>> ELSE <<norm>>) \o <<layer.activation>>

\* C4: in Discriminator, for norm_type 'batchnorm', 'instancenorm' or None,
\* downsample_1 applies no normalization and its convolution has a bias, and
\* downsample_2..4 apply the normalization norm_type selects (none for None).
C4_DiscNorm ==
    (/\ kind = "Discriminator" /\ pc # "new"
     /\ args.norm_type \in NormDocumented) =>
        /\ obj.raised = "none"
        /\ StageNormIs(obj.downsample_1, 1, "unset")
        /\ StageNormIs(obj.downsample_2, 2, SelectedNorm(args.norm_type))
        /\ StageNormIs(obj.downsample_3, 3, SelectedNorm(args.norm_type))
        /\ StageNormIs(obj.downsample_4, 5, SelectedNorm(args.norm_type))

C4_Witness ==
    /\ kind = "Discriminator" /\ pc = "done"
    /\ args.norm_type = "batchnorm"
    /\ trace[1].ops = <<"Conv2D", "LeakyReLU(0.2)">>
    /\ trace[5].ops = <<"Conv2D", "BatchNormalization", "LeakyReLU(0.2)">>

\* C5: the Downsample and Upsample stages of ResNetGenerator use the
\* normalization the constructor argument norm_type selects: BatchNormalization
\* for 'batchnorm', none for None.
C5_GenNormSelected ==
    (kind = "ResNetGenerator" /\ pc # "new") =>
        /\ StageNormIs(obj.downsample_1, 2, SelectedNorm(args.norm_type))
        /\ StageNormIs(obj.downsample_2, 3, SelectedNorm(args.norm_type))
        /\ StageNormIs(obj.downsample_3, 4, SelectedNorm(args.norm_type))
        /\ obj.upsample_1.norm_layer = SelectedNorm(args.norm_type)
        /\ obj.upsample_2.norm_layer = SelectedNorm(args.norm_type)

\* C6: each of downsample_1..3 and upsample_1..2 of ResNetGenerator is
\* Convolution -> InstanceNorm -> ReLU: its final activation is ReLU.
C6_GenStagesReLU ==
    (kind = "ResNetGenerator" /\ pc # "new") =>
        /\ obj.downsample_1.activation = "ReLU"
        /\ obj.downsample_2.activation = "ReLU"
        /\ obj.downsample_3.activation = "ReLU"
        /\ obj.upsample_1.activation = "ReLU"
        /\ obj.upsample_2.activation = "ReLU"
        /\ \A i \in {2, 3, 4, 14, 15} :
              (Len(trace) >= i /\ trace[i].out.err = "none") =>
                  trace[i].ops[Len(trace[i].ops)] = "ReLU"

\* C7: in Downsample and Upsample the normalization is applied iff norm_type is
\* truthy, the convolution has a bias iff it is not, and the sublayers run as
\* convolution, normalization (if any), dropout (Upsample, iff apply_dropout),
\* activation, the activation last.
C7_LayerOrder ==
    (kind \in {"Downsample", "Upsample"} /\ pc # "new" /\ obj.raised = "none") =>
        /\ obj.conv.use_bias <=> ~Truthy(args.norm_type)
        /\ Truthy(args.norm_type) => obj.norm_layer \in {"BatchNormalization", "InstanceNormalization"}
        /\ Returned =>
              LET ops == trace[1].ops
                  normed == \E i \in 1..Len(ops) : ops[i] \in {"BatchNormalization", "InstanceNormalization"}
                  dropped == \E i \in 1..Len(ops) : ops[i] = "Dropout(0.5)"
              IN  /\ normed <=> Truthy(args.norm_type)
                  /\ dropped <=> (kind = "Upsample" /\ args.apply_dropout)
                  /\ ops = <<IF kind = "Upsample" THEN "Conv2DTranspose" ELSE "Conv2D">>
                           \o (IF normed THEN <<obj.norm_layer>> ELSE <<>>)
                           \o (IF dropped THEN <<"Dropout(0.5)">> ELSE <<>>)
                           \o <<get_activation(args.activation)>>
                  /\ ops[Len(ops)] \in {"ReLU", "LeakyReLU(0.2)", "tanh"}

C7_Witness ==
    /\ kind = "Upsample" /\ pc = "done"
    /\ args.norm_type = "BatchNorm" /\ args.apply_dropout
    /\ trace[1].ops = <<"Conv2DTranspose", "BatchNormalization", "Dropout(0.5)", "ReLU">>

BlockCase ==
    /\ kind = "ResNetBlock" /\ pc \notin {"new", "call"}
    /\ args.size >= 1
    /\ args.strides = ResNetBlockDefaults.strides
    /\ args.padding = ResNetBlockDefaults.padding
    /\ inputs.c = args.filters
    /\ inputs.h > (args.size - 1) \div 2
    /\ inputs.w > (args.size - 1) \div 2

BlockKeepsShape ==
    /\ raised = "none"
    /\ trace[1].body = inputs
    /\ trace[1].out = inputs
    /\ pc = "done" => result = inputs

\* C8 as stated: for ResNetBlock with strides=1, padding='valid', every kernel
\* size >= 1 and an input with C = filters and H, W above the padding width,
\* the second InstanceNormalization's output and the block's output have the
\* input's shape.
C8_Original == BlockCase => BlockKeepsShape

\* C8 amended: the same for every odd kernel size >= 1.
C8_OddSize == (BlockCase /\ args.size % 2 = 1) => BlockKeepsShape

C8_Witness ==
    /\ kind = "ResNetBlock" /\ pc = "done"
    /\ args.size = 3 /\ args.strides = 1 /\ args.padding = "valid"
    /\ inputs = Tensor(2, 3, 2, 2) /\ args.filters = 2
    /\ trace[1].body = inputs
    /\ result = inputs

====
